---- MODULE Spec2Model ----
(***************************************************************************)
(* HeapDumpStarDiver: the columnar projection of a JVM heap dump           *)
(* (dump_objects_to_parquet, src/src/main.rs) and the interactive field    *)
(* printer (dump_objects / print_field_val).                               *)
(*                                                                         *)
(* Texts (utf8 strings, class names, type labels, file names) are          *)
(* sequences of tokens, so that the "/" -> "." replacement of the writer   *)
(* is computed.  HashMaps are functions on the set of their keys.          *)
(* Option values are records [some |-> BOOLEAN, v |-> value].              *)
(***************************************************************************)
EXTENDS Integers, Sequences, FiniteSets, TLC

VARIABLES
    hprof,                            \* the parsed dump: [id_size, records]
    subcommand,                       \* "dump-objects-to-parquet" or "dump-objects"
    pc,                               \* "pass1" "hierarchy" "pass2" "emit" "print" "done" "panic"
    pos,                              \* records consumed by the current pass
    utf8,                             \* name id -> text
    utf_8,                            \* text -> name id
    load_classes,                     \* class obj id -> LoadClass record
    classes,                          \* class obj id -> EzClass
    obj_id_to_class_obj_id,           \* instance / object array id -> class obj id
    prim_array_obj_id_to_type,        \* primitive array id -> element type
    class_instance_field_descriptors, \* class obj id -> hierarchy field descriptors
    schemas,                          \* class obj id -> Schema (sequence of Fields)
    class_field_val_map,              \* class obj id -> field name -> values
    pending,                          \* classes of `schemas` the emission loop has not visited
    files,                            \* file name -> the batches stored in it
    written,                          \* batches handed to the writer, in order
    printed,                          \* lines dump-objects wrote to standard output
    run                               \* which run of the tool over the dump this is

vars == <<hprof, subcommand, pc, pos, utf8, utf_8, load_classes, classes,
          obj_id_to_class_obj_id, prim_array_obj_id_to_type,
          class_instance_field_descriptors, schemas, class_field_val_map,
          pending, files, written, printed, run>>

index == <<utf8, utf_8, load_classes, classes, obj_id_to_class_obj_id,
           prim_array_obj_id_to_type>>

----------------------------------------------------------------------------
(* Generic helpers *)

EmptyMap == [k \in {} |-> 0]

Put(m, k, v) == [x \in (DOMAIN m) \cup {k} |-> IF x = k THEN v ELSE m[x]]

None == [some |-> FALSE]

Some(v) == [some |-> TRUE, v |-> v]

Get(m, k) == IF k \in DOMAIN m THEN Some(m[k]) ELSE None

Range(s) == {s[i] : i \in DOMAIN s}

RECURSIVE Concat(_)
Concat(ss) == IF ss = <<>> THEN <<>> ELSE Head(ss) \o Concat(Tail(ss))

----------------------------------------------------------------------------
(* Texts *)

MISSING_UTF8 == <<"(missing utf8)">>

INVALID_UTF8 == <<"(invalid UTF-8)">>

NullLabel == <<"null">>

\* str::replace("/", ".") of write_to_parquet
ReplaceSlash(text) == [i \in DOMAIN text |-> IF text[i] = "/" THEN "." ELSE text[i]]

\* FileName without the replacement of "/" (without util.rs 18)
FileName_Raw(filename_prefix) ==
    <<"parquet", "/">> \o filename_prefix \o <<".parquet">>

\* format!("parquet/{}.parquet", filename_prefix)
FileName(filename_prefix) ==
    <<"parquet", "/">> \o ReplaceSlash(filename_prefix) \o <<".parquet">>

\* write_to_parquet on the file system fs: File::create makes the file anew,
\* empty if it was there, the one batch is written and the file closed
\* (util.rs 19, 26-32)
WriteToParquet(fs, file, batch) == Put(fs, file, <<batch>>)

----------------------------------------------------------------------------
(* Field decoding: FieldType::parse_value of the hprof parser *)

FieldTypes == {"ObjectId", "Boolean", "Char", "Float", "Double",
               "Byte", "Short", "Int", "Long"}

FieldWidth(field_type, id_size) ==
    CASE field_type = "ObjectId" -> id_size
      [] field_type = "Boolean"  -> 1
      [] field_type = "Byte"     -> 1
      [] field_type = "Char"     -> 2
      [] field_type = "Short"    -> 2
      [] field_type = "Float"    -> 4
      [] field_type = "Int"      -> 4
      [] field_type = "Double"   -> 8
      [] field_type = "Long"     -> 8

\* ids and chars are kept below IdCap: a larger value reads as IdCap, which
\* is above every id a record of the dumps carries
IdCap == 4194304

\* big-endian unsigned value of a byte string
RECURSIVE BeUnsigned(_)
BeUnsigned(bytes) ==
    IF bytes = <<>> THEN 0
    ELSE LET hi == BeUnsigned(SubSeq(bytes, 1, Len(bytes) - 1))
             v == hi * 256 + bytes[Len(bytes)]
         IN IF hi >= IdCap \/ v >= IdCap THEN IdCap ELSE v

\* big-endian two's complement value of a non-empty byte string
BeSigned(bytes) ==
    LET hi == IF bytes[1] >= 128 THEN bytes[1] - 256 ELSE bytes[1]
        RECURSIVE acc(_)
        acc(n) == IF n = 1 THEN hi ELSE acc(n - 1) * 256 + bytes[n]
    IN acc(Len(bytes))

\* the typed value of `bytes`, which holds exactly the field's width
DecodeValue(field_type, bytes) ==
    CASE field_type = "ObjectId" ->
           LET id == BeUnsigned(bytes)
           IN [tag |-> "ObjectId", val |-> IF id = 0 THEN None ELSE Some(id)]
      [] field_type = "Boolean" -> [tag |-> "Boolean", val |-> bytes[1] # 0]
      [] field_type = "Char"    -> [tag |-> "Char", val |-> BeUnsigned(bytes)]
      [] OTHER                  -> [tag |-> field_type, val |-> BeSigned(bytes)]

\* Ok((rest, value)) or Err when fewer bytes remain than the field's width
ParseValue(field_type, input, id_size) ==
    LET w == FieldWidth(field_type, id_size)
    IN IF Len(input) < w
       THEN [ok |-> FALSE]
       ELSE [ok |-> TRUE,
             rest |-> SubSeq(input, w + 1, Len(input)),
             val |-> DecodeValue(field_type, SubSeq(input, 1, w))]

----------------------------------------------------------------------------
(* Pass 1: the identity index (main.rs 220-259) *)

\* EzClass::from_class: the class's metadata, its name resolved through the
\* load-class record and the string table as they are when the class
\* sub-record is read
EzClassFromClass(c, lcs, strs) ==
    [obj_id |-> c.obj_id,
     name |-> IF c.obj_id \in DOMAIN lcs /\ lcs[c.obj_id].class_name_id \in DOMAIN strs
              THEN strs[lcs[c.obj_id].class_name_id]
              ELSE MISSING_UTF8,
     super_class_obj_id |-> c.super_class_obj_id,
     static_fields |-> c.static_fields,
     instance_field_descriptors |-> c.instance_field_descriptors]

\* IndexSubRecord that drops the entry of an instance whose id the
\* object-to-class map already holds, where the insert of main.rs 234-235
\* overwrites it
IndexSubRecord_Toggle(ix, s) ==
    CASE s.tag = "Class" ->
           [ix EXCEPT !.classes =
               Put(@, s.obj_id, EzClassFromClass(s, ix.load_classes, ix.utf8))]
      [] s.tag = "Instance" ->
           [ix EXCEPT !.obj_id_to_class_obj_id =
               IF s.obj_id \in DOMAIN @
               THEN [k \in DOMAIN @ \ {s.obj_id} |-> @[k]]
               ELSE Put(@, s.obj_id, s.class_obj_id)]
      [] s.tag = "ObjectArray" ->
           [ix EXCEPT !.obj_id_to_class_obj_id = Put(@, s.obj_id, s.array_class_obj_id)]
      [] s.tag = "PrimitiveArray" ->
           [ix EXCEPT !.prim_array_obj_id_to_type = Put(@, s.obj_id, s.primitive_type)]
      [] OTHER -> ix

\* one sub-record of a heap dump segment, first pass
IndexSubRecord(ix, s) ==
    CASE s.tag = "Class" ->
           [ix EXCEPT !.classes =
               Put(@, s.obj_id, EzClassFromClass(s, ix.load_classes, ix.utf8))]
      [] s.tag = "Instance" ->
           [ix EXCEPT !.obj_id_to_class_obj_id = Put(@, s.obj_id, s.class_obj_id)]
      [] s.tag = "ObjectArray" ->
           [ix EXCEPT !.obj_id_to_class_obj_id = Put(@, s.obj_id, s.array_class_obj_id)]
      [] s.tag = "PrimitiveArray" ->
           [ix EXCEPT !.prim_array_obj_id_to_type = Put(@, s.obj_id, s.primitive_type)]
      [] OTHER -> ix

RECURSIVE IndexSubRecords(_, _)
IndexSubRecords(ix, subs) ==
    IF subs = <<>> THEN ix
    ELSE IndexSubRecords(IndexSubRecord(ix, Head(subs)), Tail(subs))

\* one top-level record, first pass; dump_objects_to_parquet also keeps the
\* reverse string table (`reverse`), dump_objects does not
IndexRecord(ix, r, reverse) ==
    CASE r.tag = "HeapDumpSegment" -> IndexSubRecords(ix, r.sub_records)
      [] r.tag = "Utf8" ->
           LET s == IF r.text.some THEN r.text.v ELSE INVALID_UTF8
           IN [ix EXCEPT !.utf8 = Put(@, r.name_id, s),
                         !.utf_8 = IF reverse THEN Put(@, s, r.name_id) ELSE @]
      [] r.tag = "LoadClass" ->
           [ix EXCEPT !.load_classes = Put(@, r.class_obj_id, r)]
      [] OTHER -> ix

EmptyIndex ==
    [utf8 |-> EmptyMap, utf_8 |-> EmptyMap, load_classes |-> EmptyMap,
     classes |-> EmptyMap, obj_id_to_class_obj_id |-> EmptyMap,
     prim_array_obj_id_to_type |-> EmptyMap]

CurrentIndex ==
    [utf8 |-> utf8, utf_8 |-> utf_8, load_classes |-> load_classes,
     classes |-> classes, obj_id_to_class_obj_id |-> obj_id_to_class_obj_id,
     prim_array_obj_id_to_type |-> prim_array_obj_id_to_type]

\* the whole first pass as a function of the record stream
RECURSIVE IndexRecords(_, _, _)
IndexRecords(ix, rs, reverse) ==
    IF rs = <<>> THEN ix
    ELSE IndexRecords(IndexRecord(ix, Head(rs), reverse), Tail(rs), reverse)

----------------------------------------------------------------------------
(* Hierarchy layout: build_type_hierarchy_field_descriptors (main.rs 261) *)

\* HierarchyFieldDescriptors with the fields of the root-most class first
\* and the class's own fields last
RECURSIVE HierarchyFieldDescriptors_RootFirst(_, _, _)
HierarchyFieldDescriptors_RootFirst(cls, class_id, fuel) ==
    IF class_id \notin DOMAIN cls \/ fuel = 0 THEN [ok |-> FALSE]
    ELSE LET c == cls[class_id]
         IN IF c.super_class_obj_id = 0
            THEN [ok |-> TRUE, fds |-> c.instance_field_descriptors]
            ELSE LET up == HierarchyFieldDescriptors_RootFirst(cls,
                               c.super_class_obj_id, fuel - 1)
                 IN IF up.ok
                    THEN [ok |-> TRUE, fds |-> up.fds \o c.instance_field_descriptors]
                    ELSE up

\* the class's own declared fields, then those of each superclass up the
\* chain; Err when a superclass is absent from the class table
RECURSIVE HierarchyFieldDescriptors(_, _, _)
HierarchyFieldDescriptors(cls, class_id, fuel) ==
    IF class_id \notin DOMAIN cls \/ fuel = 0 THEN [ok |-> FALSE]
    ELSE LET c == cls[class_id]
         IN IF c.super_class_obj_id = 0
            THEN [ok |-> TRUE, fds |-> c.instance_field_descriptors]
            ELSE LET up == HierarchyFieldDescriptors(cls, c.super_class_obj_id, fuel - 1)
                 IN IF up.ok
                    THEN [ok |-> TRUE, fds |-> c.instance_field_descriptors \o up.fds]
                    ELSE up

BuildTypeHierarchyFieldDescriptors(cls) ==
    LET one(id) == HierarchyFieldDescriptors(cls, id, Cardinality(DOMAIN cls))
    IN IF \A id \in DOMAIN cls : one(id).ok
       THEN [ok |-> TRUE, map |-> [id \in DOMAIN cls |-> one(id).fds]]
       ELSE [ok |-> FALSE]

----------------------------------------------------------------------------
(* Arrow data types, fields and arrays *)

Scalar(kind) == [kind |-> kind, children |-> <<>>]

Field(name, data_type, nullable) ==
    [name |-> name, data_type |-> data_type, nullable |-> nullable]

\* DataType::Struct(Fields[id: UInt64, type: Utf8])
RefStruct ==
    [kind |-> "Struct",
     children |-> <<Field(<<"id">>, Scalar("UInt64"), FALSE),
                    Field(<<"type">>, Scalar("Utf8"), FALSE)>>]

Array(data_type, values) == [data_type |-> data_type, values |-> values]

ArrayLen(col) == Len(col.values)

----------------------------------------------------------------------------
(* Schema inference: generate_schema_from_type (util.rs) *)

\* the column type a scalar value's tag maps to (util.rs 146-179)
ScalarDataType(tag) ==
    CASE tag = "Boolean" -> Scalar("Boolean")
      [] tag = "Char"    -> Scalar("UInt16")
      [] tag = "Float"   -> Scalar("Float32")
      [] tag = "Double"  -> Scalar("Float64")
      [] tag = "Byte"    -> Scalar("Int8")
      [] tag = "Short"   -> Scalar("Int16")
      [] tag = "Int"     -> Scalar("Int32")
      [] tag = "Long"    -> Scalar("Int64")

\* the schema fields one decoded value contributes (util.rs 53-180): a
\* reference found in the object map or in the primitive array map gives the
\* {id, type} struct, a class object or an unknown id gives no field, and a
\* null reference gives a nullable Null field
SchemaFieldsOfValue(field_val, field_name, obj_map, cls, prim_map) ==
    IF field_val.tag = "ObjectId"
    THEN IF field_val.val.some
         THEN LET field_ref_id == field_val.val.v
              IN IF field_ref_id \in DOMAIN obj_map
                 THEN <<Field(field_name, RefStruct, FALSE)>>
                 ELSE IF field_ref_id \in DOMAIN prim_map
                      THEN <<Field(field_name, RefStruct, FALSE)>>
                      ELSE <<>>
         ELSE <<Field(field_name, Scalar("Null"), TRUE)>>
    ELSE <<Field(field_name, ScalarDataType(field_val.tag), FALSE)>>

\* the name a field descriptor resolves to (main.rs 120)
FieldName(fd, strs) ==
    IF fd.name_id \in DOMAIN strs THEN strs[fd.name_id] ELSE MISSING_UTF8

\* the schema of a class from the field bytes of one instance: the fields
\* each descriptor's decoded value contributes, in descriptor order
RECURSIVE GenerateSchemaFromType(_, _, _, _, _, _, _)
GenerateSchemaFromType(id_size, field_descriptors, input, strs, obj_map, cls, prim_map) ==
    IF field_descriptors = <<>> THEN [ok |-> TRUE, schema |-> <<>>]
    ELSE LET fd == Head(field_descriptors)
             p == ParseValue(fd.field_type, input, id_size)
         IN IF ~p.ok THEN [ok |-> FALSE]
            ELSE LET rest == GenerateSchemaFromType(id_size, Tail(field_descriptors),
                                                    p.rest, strs, obj_map, cls, prim_map)
                 IN IF ~rest.ok THEN rest
                    ELSE [ok |-> TRUE,
                          schema |-> SchemaFieldsOfValue(p.val, FieldName(fd, strs),
                                                         obj_map, cls, prim_map)
                                     \o rest.schema]

----------------------------------------------------------------------------
(* Accumulation: add_instance_values (main.rs 103-198) *)

ObjectReference(id) == [tag |-> "ObjectReference", id |-> id]

PrimitiveArrayReference(id) == [tag |-> "PrimitiveArrayReference", id |-> id]

FieldValue(fv) == [tag |-> "FieldValue", fv |-> fv]

\* The closure bodies the Option chain of main.rs 129-167 runs for a non-null
\* reference, in order.  The primitive-array closure (149-158) returns None
\* whatever it found, so the chain goes on to the class lookup after it.
AddRefBranches(field_ref_id, obj_map, cls, prim_map) ==
    LET s1 == IF field_ref_id \in DOMAIN obj_map
              THEN [some |-> TRUE, ran |-> <<"instance">>]
              ELSE [some |-> FALSE, ran |-> <<>>]
        s2 == IF s1.some THEN s1
              ELSE [some |-> FALSE,
                    ran |-> IF field_ref_id \in DOMAIN prim_map
                            THEN <<"primitive_array">> ELSE <<>>]
        s3 == IF s2.some THEN s2
              ELSE IF field_ref_id \in DOMAIN cls
                   THEN [some |-> TRUE, ran |-> s2.ran \o <<"class">>]
                   ELSE [some |-> FALSE, ran |-> s2.ran]
    IN IF s3.some THEN s3.ran ELSE s3.ran \o <<"not_found">>

\* what one closure body pushes onto the field's value vector
BranchPush(branch, field_ref_id) ==
    CASE branch = "instance"        -> <<ObjectReference(field_ref_id)>>
      [] branch = "primitive_array" -> <<PrimitiveArrayReference(field_ref_id)>>
      [] OTHER                      -> <<>>

\* PushedValues with the null arm (main.rs 169-171) left out
PushedValues_NoNull(field_val, obj_map, cls, prim_map) ==
    IF field_val.tag = "ObjectId"
    THEN IF field_val.val.some
         THEN LET id == field_val.val.v
                  ran == AddRefBranches(id, obj_map, cls, prim_map)
              IN Concat([i \in DOMAIN ran |-> BranchPush(ran[i], id)])
         ELSE <<>>
    ELSE <<FieldValue(field_val)>>

\* the values add_instance_values pushes for one decoded field value
PushedValues(field_val, obj_map, cls, prim_map) ==
    IF field_val.tag = "ObjectId"
    THEN IF field_val.val.some
         THEN LET id == field_val.val.v
                  ran == AddRefBranches(id, obj_map, cls, prim_map)
              IN Concat([i \in DOMAIN ran |-> BranchPush(ran[i], id)])
         ELSE <<ObjectReference(0)>>
    ELSE <<FieldValue(field_val)>>

\* AddInstanceValues with the cursor left where it was (without main.rs 119)
RECURSIVE AddInstanceValues_NoAdvance(_, _, _, _, _, _, _, _)
AddInstanceValues_NoAdvance(id_size, field_val_map, field_descriptors, field_val_input, strs, obj_map, cls, prim_map) ==
    IF field_descriptors = <<>> THEN [ok |-> TRUE, map |-> field_val_map]
    ELSE LET fd == Head(field_descriptors)
             p == ParseValue(fd.field_type, field_val_input, id_size)
         IN IF ~p.ok THEN [ok |-> FALSE]
            ELSE LET field_name == FieldName(fd, strs)
                     old == IF field_name \in DOMAIN field_val_map
                            THEN field_val_map[field_name] ELSE <<>>
                     new == old \o PushedValues(p.val, obj_map, cls, prim_map)
                 IN AddInstanceValues_NoAdvance(id_size, Put(field_val_map, field_name, new),
                                      Tail(field_descriptors), field_val_input,
                                      strs, obj_map, cls, prim_map)

\* AddInstanceValues that, where the bytes run out, goes on with the value
\* of a field of zero bytes
RECURSIVE AddInstanceValues_Padded(_, _, _, _, _, _, _, _)
AddInstanceValues_Padded(id_size, field_val_map, field_descriptors, field_val_input, strs, obj_map, cls, prim_map) ==
    IF field_descriptors = <<>> THEN [ok |-> TRUE, map |-> field_val_map]
    ELSE LET fd == Head(field_descriptors)
             w == FieldWidth(fd.field_type, id_size)
             q == ParseValue(fd.field_type, field_val_input, id_size)
             p == IF q.ok THEN q
                  ELSE [ok |-> TRUE, rest |-> <<>>,
                        val |-> DecodeValue(fd.field_type, [k \in 1..w |-> 0])]
             field_name == FieldName(fd, strs)
             old == IF field_name \in DOMAIN field_val_map
                    THEN field_val_map[field_name] ELSE <<>>
             new == old \o PushedValues(p.val, obj_map, cls, prim_map)
         IN AddInstanceValues_Padded(id_size, Put(field_val_map, field_name, new),
                                     Tail(field_descriptors), p.rest,
                                     strs, obj_map, cls, prim_map)

\* Ok(field_val_map after the instance's fields were added) or Err when a
\* field cannot be parsed (the unwrap of main.rs 118)
RECURSIVE AddInstanceValues(_, _, _, _, _, _, _, _)
AddInstanceValues(id_size, field_val_map, field_descriptors, field_val_input, strs, obj_map, cls, prim_map) ==
    IF field_descriptors = <<>> THEN [ok |-> TRUE, map |-> field_val_map]
    ELSE LET fd == Head(field_descriptors)
             p == ParseValue(fd.field_type, field_val_input, id_size)
         IN IF ~p.ok THEN [ok |-> FALSE]
            ELSE LET field_name == FieldName(fd, strs)
                     old == IF field_name \in DOMAIN field_val_map
                            THEN field_val_map[field_name] ELSE <<>>
                     new == old \o PushedValues(p.val, obj_map, cls, prim_map)
                 IN AddInstanceValues(id_size, Put(field_val_map, field_name, new),
                                      Tail(field_descriptors), p.rest,
                                      strs, obj_map, cls, prim_map)

----------------------------------------------------------------------------
(* Pass 2: decoding and accumulation (main.rs 279-387) *)

\* Pass2SubRecord resolving references as a single interleaved pass would
\* when it reaches the instance: against the objects of smaller ids only,
\* the arrays, written after the instances, not yet known
Pass2SubRecord_Interleaved(st, s, id_size, ix, cifd) ==
    IF ~st.ok \/ s.tag # "Instance" THEN st
    ELSE IF s.class_obj_id \notin DOMAIN ix.classes
              \/ s.class_obj_id \notin DOMAIN cifd
    THEN [st EXCEPT !.ok = FALSE]
    ELSE
      LET cid == s.class_obj_id
          field_descriptors == cifd[cid]
          seen == [k \in {j \in DOMAIN ix.obj_id_to_class_obj_id : j < s.obj_id /\ j < 6}
                     |-> ix.obj_id_to_class_obj_id[k]]
          gen == IF cid \in DOMAIN st.schemas
                 THEN [ok |-> TRUE, schema |-> st.schemas[cid]]
                 ELSE GenerateSchemaFromType(id_size, field_descriptors, s.fields,
                          ix.utf8, seen, ix.classes, EmptyMap)
          field_val_map == IF cid \in DOMAIN st.class_field_val_map
                           THEN st.class_field_val_map[cid] ELSE EmptyMap
          added == AddInstanceValues(id_size, field_val_map, field_descriptors,
                       s.fields, ix.utf8, seen, ix.classes, EmptyMap)
      IN IF ~gen.ok \/ ~added.ok
         THEN [st EXCEPT !.ok = FALSE]
         ELSE [ok |-> TRUE,
               schemas |-> Put(st.schemas, cid, gen.schema),
               class_field_val_map |-> Put(st.class_field_val_map, cid, added.map)]

\* Pass2SubRecord generating the class's schema from every instance it
\* meets, the last one's replacing the one held, where main.rs 309 generates
\* it for a class the schema map does not hold yet
Pass2SubRecord_Regenerating(st, s, id_size, ix, cifd) ==
    IF ~st.ok \/ s.tag # "Instance" THEN st
    ELSE IF s.class_obj_id \notin DOMAIN ix.classes
              \/ s.class_obj_id \notin DOMAIN cifd
    THEN [st EXCEPT !.ok = FALSE]
    ELSE
      LET cid == s.class_obj_id
          field_descriptors == cifd[cid]
          gen == GenerateSchemaFromType(id_size, field_descriptors, s.fields,
                     ix.utf8, ix.obj_id_to_class_obj_id, ix.classes,
                     ix.prim_array_obj_id_to_type)
          field_val_map == IF cid \in DOMAIN st.class_field_val_map
                           THEN st.class_field_val_map[cid] ELSE EmptyMap
          added == AddInstanceValues(id_size, field_val_map, field_descriptors,
                       s.fields, ix.utf8, ix.obj_id_to_class_obj_id, ix.classes,
                       ix.prim_array_obj_id_to_type)
      IN IF ~gen.ok \/ ~added.ok
         THEN [st EXCEPT !.ok = FALSE]
         ELSE [ok |-> TRUE,
               schemas |-> Put(st.schemas, cid, gen.schema),
               class_field_val_map |-> Put(st.class_field_val_map, cid, added.map)]

\* one sub-record of a heap dump segment, second pass; st.ok turns FALSE on
\* a panic and stays so
Pass2SubRecord(st, s, id_size, ix, cifd) ==
    IF ~st.ok \/ s.tag # "Instance" THEN st
    ELSE IF s.class_obj_id \notin DOMAIN ix.classes
              \/ s.class_obj_id \notin DOMAIN cifd
    THEN [st EXCEPT !.ok = FALSE]
    ELSE
      LET cid == s.class_obj_id
          field_descriptors == cifd[cid]
          gen == IF cid \in DOMAIN st.schemas
                 THEN [ok |-> TRUE, schema |-> st.schemas[cid]]
                 ELSE GenerateSchemaFromType(id_size, field_descriptors, s.fields,
                          ix.utf8, ix.obj_id_to_class_obj_id, ix.classes,
                          ix.prim_array_obj_id_to_type)
          field_val_map == IF cid \in DOMAIN st.class_field_val_map
                           THEN st.class_field_val_map[cid] ELSE EmptyMap
          added == AddInstanceValues(id_size, field_val_map, field_descriptors,
                       s.fields, ix.utf8, ix.obj_id_to_class_obj_id, ix.classes,
                       ix.prim_array_obj_id_to_type)
      IN IF ~gen.ok \/ ~added.ok
         THEN [st EXCEPT !.ok = FALSE]
         ELSE [ok |-> TRUE,
               schemas |-> Put(st.schemas, cid, gen.schema),
               class_field_val_map |-> Put(st.class_field_val_map, cid, added.map)]

RECURSIVE Pass2SubRecords(_, _, _, _, _)
Pass2SubRecords(st, subs, id_size, ix, cifd) ==
    IF subs = <<>> THEN st
    ELSE Pass2SubRecords(Pass2SubRecord(st, Head(subs), id_size, ix, cifd),
                         Tail(subs), id_size, ix, cifd)

\* one top-level record, second pass
Pass2Record(st, r, id_size, ix, cifd) ==
    IF r.tag = "HeapDumpSegment"
    THEN Pass2SubRecords(st, r.sub_records, id_size, ix, cifd)
    ELSE st

----------------------------------------------------------------------------
(* Emission (main.rs 389-579) *)

\* the label of a primitive array's element type (main.rs 432-442)
PrimTypeLabel(prim_map, id) ==
    IF id \in DOMAIN prim_map
    THEN CASE prim_map[id] = "Boolean" -> <<"boolean">>
           [] prim_map[id] = "Char"    -> <<"char">>
           [] prim_map[id] = "Float"   -> <<"float">>
           [] prim_map[id] = "Double"  -> <<"double">>
           [] prim_map[id] = "Byte"    -> <<"byte">>
           [] prim_map[id] = "Short"   -> <<"short">>
           [] prim_map[id] = "Int"     -> <<"int">>
           [] prim_map[id] = "Long"    -> <<"long">>
    ELSE NullLabel

\* whether the type label of an object reference can be computed
\* (the two unwraps of main.rs 411)
ObjectLabelOk(v, ix) ==
    \/ v.tag # "ObjectReference"
    \/ v.id = 0
    \/ /\ v.id \in DOMAIN ix.obj_id_to_class_obj_id
       /\ ix.obj_id_to_class_obj_id[v.id] \in DOMAIN ix.classes

\* the type label of one value in an object-reference column (main.rs 406-414)
ObjectLabel(v, ix) ==
    IF v.tag = "ObjectReference"
    THEN IF v.id = 0 THEN NullLabel
         ELSE ix.classes[ix.obj_id_to_class_obj_id[v.id]].name
    ELSE NullLabel

\* the id of one value in an object-reference column (main.rs 402-405)
ObjectIdOf(v) == IF v.tag = "ObjectReference" THEN v.id ELSE 0

\* one row of a primitive-array-reference column (main.rs 427-444)
PrimArrayRow(v, ix) ==
    IF v.tag = "PrimitiveArrayReference"
    THEN [id |-> v.id, type |-> PrimTypeLabel(ix.prim_array_obj_id_to_type, v.id)]
    ELSE [id |-> 0, type |-> NullLabel]

\* the default a scalar column takes for a value of another kind
ScalarDefault(tag) == IF tag = "Boolean" THEN FALSE ELSE 0

\* one value of a scalar column whose first value has tag `tag`
ScalarOf(v, tag) ==
    IF v.tag = "FieldValue" /\ v.fv.tag = tag THEN v.fv.val ELSE ScalarDefault(tag)

\* the column built from a field's value vector, chosen by the vector's
\* first value (main.rs 400-520); Err on a panic
BuildColumn(field_val_vec, ix) ==
    IF field_val_vec = <<>> THEN [ok |-> FALSE]
    ELSE LET first == field_val_vec[1]
         IN CASE first.tag = "ObjectReference" ->
                   IF \A i \in DOMAIN field_val_vec : ObjectLabelOk(field_val_vec[i], ix)
                   THEN [ok |-> TRUE,
                         col |-> Array(RefStruct,
                                   [i \in DOMAIN field_val_vec |->
                                      [id |-> ObjectIdOf(field_val_vec[i]),
                                       type |-> ObjectLabel(field_val_vec[i], ix)]])]
                   ELSE [ok |-> FALSE]
              [] first.tag = "PrimitiveArrayReference" ->
                   [ok |-> TRUE,
                    col |-> Array(RefStruct,
                              [i \in DOMAIN field_val_vec |->
                                 PrimArrayRow(field_val_vec[i], ix)])]
              [] first.tag = "FieldValue" /\ first.fv.tag = "ObjectId" ->
                   IF \A i \in DOMAIN field_val_vec :
                         LET v == field_val_vec[i]
                         IN v.tag = "FieldValue" /\ v.fv.tag = "ObjectId" => v.fv.val.some
                   THEN [ok |-> TRUE,
                         col |-> Array(Scalar("UInt64"),
                                   [i \in DOMAIN field_val_vec |->
                                      LET v == field_val_vec[i]
                                      IN IF v.tag = "FieldValue" /\ v.fv.tag = "ObjectId"
                                         THEN v.fv.val.v ELSE 0])]
                   ELSE [ok |-> FALSE]
              [] OTHER ->
                   [ok |-> TRUE,
                    col |-> Array(ScalarDataType(first.fv.tag),
                              [i \in DOMAIN field_val_vec |->
                                 ScalarOf(field_val_vec[i], first.fv.tag)])]

\* BuildColumns that builds every column after the first from the values of
\* the first field
RECURSIVE BuildColumns_Leaking(_, _, _)
BuildColumns_Leaking(schema_fields, field_val_map, ix) ==
    IF schema_fields = <<>> THEN [ok |-> TRUE, columns |-> <<>>]
    ELSE LET field_name == Head(schema_fields).name
         IN IF field_name \notin DOMAIN ix.utf_8 THEN [ok |-> FALSE]
            ELSE LET here == IF field_name \in DOMAIN field_val_map
                             THEN BuildColumn(field_val_map[field_name], ix)
                             ELSE [ok |-> TRUE]
                     rest == BuildColumns_Leaking(Tail(schema_fields),
                                 IF field_name \in DOMAIN field_val_map
                                 THEN [f \in DOMAIN field_val_map |->
                                          field_val_map[field_name]]
                                 ELSE field_val_map, ix)
                 IN IF ~here.ok \/ ~rest.ok THEN [ok |-> FALSE]
                    ELSE [ok |-> TRUE,
                          columns |-> (IF field_name \in DOMAIN field_val_map
                                       THEN <<here.col>> ELSE <<>>) \o rest.columns]

\* the columns of a class, one schema field after the other (main.rs 392-558)
RECURSIVE BuildColumns(_, _, _)
BuildColumns(schema_fields, field_val_map, ix) ==
    IF schema_fields = <<>> THEN [ok |-> TRUE, columns |-> <<>>]
    ELSE LET field_name == Head(schema_fields).name
         IN IF field_name \notin DOMAIN ix.utf_8 THEN [ok |-> FALSE]
            ELSE LET here == IF field_name \in DOMAIN field_val_map
                             THEN BuildColumn(field_val_map[field_name], ix)
                             ELSE [ok |-> TRUE]
                     rest == BuildColumns(Tail(schema_fields), field_val_map, ix)
                 IN IF ~here.ok \/ ~rest.ok THEN [ok |-> FALSE]
                    ELSE [ok |-> TRUE,
                          columns |-> (IF field_name \in DOMAIN field_val_map
                                       THEN <<here.col>> ELSE <<>>) \o rest.columns]

\* ColumnLengthsDiffer that finds no difference
ColumnLengthsDiffer_Never(columns) == FALSE

\* ColumnLengthsDiffer that compares the first two columns only
ColumnLengthsDiffer_FirstTwo(columns) ==
    Len(columns) > 1 /\ ArrayLen(columns[2]) # ArrayLen(columns[1])

\* the length check of main.rs 569
ColumnLengthsDiffer(columns) ==
    \E i \in DOMAIN columns : ArrayLen(columns[i]) # ArrayLen(columns[1])

\* RecordBatch::try_new: as many columns as schema fields, of equal length
\* and each of its field's data type
TryNewOk(schema, columns) ==
    /\ Len(schema) = Len(columns)
    /\ \A i \in DOMAIN columns : ArrayLen(columns[i]) = ArrayLen(columns[1])
    /\ \A i \in DOMAIN columns : columns[i].data_type = schema[i].data_type

RecordBatch(schema, columns) == [schema |-> schema, columns |-> columns]

\* what the emission loop does for one class: "panic", "skip" or "write"
EmitOutcome(class_id, schema, field_val_map, ix) ==
    LET built == BuildColumns(schema, field_val_map, ix)
    IN IF ~built.ok THEN [kind |-> "panic"]
       ELSE IF Len(built.columns) = 0 THEN [kind |-> "skip"]
       ELSE IF ColumnLengthsDiffer(built.columns) THEN [kind |-> "skip"]
       ELSE IF ~TryNewOk(schema, built.columns) THEN [kind |-> "panic"]
       ELSE IF class_id \notin DOMAIN ix.classes THEN [kind |-> "panic"]
       ELSE [kind |-> "write",
             file |-> FileName(ix.classes[class_id].name),
             batch |-> RecordBatch(schema, built.columns)]

----------------------------------------------------------------------------
(* The dumps the model runs on *)

\* instance records per dump
MaxInstances == 2

\* big-endian two's complement encoding of v in `width` bytes
RECURSIVE EncodeBe(_, _)
EncodeBe(v, width) ==
    IF width = 0 THEN <<>> ELSE Append(EncodeBe(v \div 256, width - 1), v % 256)

Utf8Record(name_id, text) == [tag |-> "Utf8", name_id |-> name_id, text |-> Some(text)]

LoadClassRecord(class_obj_id, class_name_id) ==
    [tag |-> "LoadClass", class_obj_id |-> class_obj_id, class_name_id |-> class_name_id]

FieldDescriptor(name_id, field_type) == [name_id |-> name_id, field_type |-> field_type]

ClassRecord(obj_id, super_class_obj_id, fds) ==
    [tag |-> "Class", obj_id |-> obj_id, super_class_obj_id |-> super_class_obj_id,
     static_fields |-> <<>>, instance_field_descriptors |-> fds]

InstanceRecord(obj_id, class_obj_id, fields) ==
    [tag |-> "Instance", obj_id |-> obj_id, class_obj_id |-> class_obj_id,
     fields |-> fields]

ObjectArrayRecord(obj_id, array_class_obj_id, elements) ==
    [tag |-> "ObjectArray", obj_id |-> obj_id, array_class_obj_id |-> array_class_obj_id,
     elements |-> elements]

PrimitiveArrayRecord(obj_id, primitive_type, elements) ==
    [tag |-> "PrimitiveArray", obj_id |-> obj_id, primitive_type |-> primitive_type,
     elements |-> elements]

Segment(subs) == [tag |-> "HeapDumpSegment", sub_records |-> subs]

\* Strings 1..5 name the fields x, r, y and the classes p/A (id 10) and
\* p/B (id 11, a subclass of p/A).  A declares x: int and r: reference,
\* B declares y: boolean.
Metadata ==
    <<Utf8Record(1, <<"x">>), Utf8Record(2, <<"r">>), Utf8Record(3, <<"y">>),
      Utf8Record(4, <<"p", "/", "A">>), Utf8Record(5, <<"p", "/", "B">>),
      LoadClassRecord(10, 4), LoadClassRecord(11, 5),
      Segment(<<ClassRecord(10, 0, <<FieldDescriptor(1, "Int"),
                                     FieldDescriptor(2, "ObjectId")>>),
                ClassRecord(11, 10, <<FieldDescriptor(3, "Boolean")>>)>>)>>

\* Arrays of the heap, written after the instances: byte[] 2 (the id of the
\* second instance, when there is one), int[] 11 (also the id of class
\* p/B), and the object array 6 of class p/B, which holds null, 2 and 9.
Arrays ==
    <<PrimitiveArrayRecord(2, "Byte", <<>>), PrimitiveArrayRecord(11, "Int", <<258>>),
      ObjectArrayRecord(6, 11, <<0, 2, 9>>)>>

\* the values a reference field takes: null, instance 2 (or byte[] 2),
\* object array 6, an id nothing declares (or the stray object array 9),
\* class p/A, int[] 11 (or class p/B)
RefVals == {0, 2, 6, 9, 10, 11}

\* the int and boolean a dump gives instance i
IntOf(i) == IF i = 1 THEN -2 ELSE 255 + i

BoolOf(i) == i % 2 = 1

\* the field bytes of instance i of class 10 or 11 with reference r, in the
\* order the dump writes them: the class's own fields, then its superclass's
FieldBytes(i, class_obj_id, r, id_size) ==
    LET own == EncodeBe(IntOf(i), 4) \o EncodeBe(r, id_size)
    IN CASE class_obj_id = 10 -> own
         [] class_obj_id = 11 -> <<IF BoolOf(i) THEN 1 ELSE 0>> \o own
         [] OTHER -> <<>>

\* the values the reference of an instance of the subclass takes: null, the
\* object array 6, an id nothing declares (or the stray object array 9)
SubclassRefVals == {0, 6, 9}

\* an instance is of class p/A, of class p/B, or of class 12, which no
\* class record declares
InstanceChoices ==
    [class_obj_id : {10}, r : RefVals] \cup [class_obj_id : {11}, r : SubclassRefVals]
        \cup {[class_obj_id |-> 12, r |-> 0]}

\* `cut` bytes are missing from (cut < 0) or added to (cut > 0) the field
\* bytes of the last instance
Resize(bytes, cut) ==
    IF cut < 0 THEN SubSeq(bytes, 1, Len(bytes) + cut)
    ELSE bytes \o [k \in 1..cut |-> 0]

\* with `extra`, instance 7 of class p/B, whose r is the object array 6,
\* follows the others
ExtraInstance(id_size) == InstanceRecord(7, 11, FieldBytes(7, 11, 6, id_size))

\* with `stray`, the object array 9 follows the other arrays: its class, 12,
\* is one no class record declares
StrayArray == ObjectArrayRecord(9, 12, <<>>)

MakeDump(id_size, choices, cut, extra, stray) ==
    LET n == Len(choices)
        inst(i) == InstanceRecord(i, choices[i].class_obj_id,
                       Resize(FieldBytes(i, choices[i].class_obj_id, choices[i].r, id_size),
                              IF i = n THEN cut ELSE 0))
    IN [id_size |-> id_size,
        records |-> Metadata
                    \o <<Segment([i \in 1..n |-> inst(i)]
                                 \o (IF extra THEN <<ExtraInstance(id_size)>> ELSE <<>>)
                                 \o Arrays
                                 \o (IF stray THEN <<StrayArray>> ELSE <<>>))>>]

\* the instance records of a dump: up to MaxInstances of them, of any
\* class and reference
InstanceLists == UNION {[1..n -> InstanceChoices] : n \in 1..MaxInstances}

\* Every list of instances with identifiers of 4 and of 8 bytes; with
\* identifiers of 4 bytes, also with the last instance a byte short or a
\* byte long, with the extra instance, and with the stray array.
Dumps ==
    {MakeDump(id_size, choices, 0, FALSE, FALSE) :
        id_size \in {4, 8}, choices \in InstanceLists}
    \cup
    {MakeDump(4, choices, cut, FALSE, FALSE) :
        choices \in InstanceLists, cut \in {-1, 1}}
    \cup
    {MakeDump(4, choices, 0, TRUE, FALSE) : choices \in InstanceLists}
    \cup
    {MakeDump(4, choices, 0, FALSE, TRUE) : choices \in InstanceLists}

\* The round-trip dumps: class 20, named T, declares a: int, b: boolean and
\* self: reference; instance 1's self is instance 2, instance 2's is null.
RoundTripInts == {-2, 0, 258}

RoundTripBytes(a, b, self, id_size) ==
    EncodeBe(a, 4) \o <<IF b THEN 1 ELSE 0>> \o EncodeBe(self, id_size)

RoundTripDump(id_size, a1, b1, a2, b2) ==
    [id_size |-> id_size,
     records |->
       <<Utf8Record(1, <<"a">>), Utf8Record(2, <<"b">>), Utf8Record(3, <<"self">>),
         Utf8Record(4, <<"T">>), LoadClassRecord(20, 4),
         Segment(<<ClassRecord(20, 0, <<FieldDescriptor(1, "Int"),
                                        FieldDescriptor(2, "Boolean"),
                                        FieldDescriptor(3, "ObjectId")>>),
                   InstanceRecord(1, 20, RoundTripBytes(a1, b1, 2, id_size)),
                   InstanceRecord(2, 20, RoundTripBytes(a2, b2, 0, id_size))>>)>>]

RoundTripDumps ==
    {RoundTripDump(id_size, a1, b1, a2, b2) :
        id_size \in {4, 8}, a1 \in RoundTripInts, b1 \in BOOLEAN,
        a2 \in RoundTripInts, b2 \in BOOLEAN}

\* The two-reference dumps: class 30, named p/C, declares the references a
\* and b.  Its instances have the ids 1, 2, ..; byte[] 2 and int[] 5 follow
\* them.  A reference is null, instance 1, 2 (the second instance when there
\* is one, byte[] 2 otherwise), int[] 5, or 9, an id nothing declares.
TwoRefVals == {0, 1, 2, 5, 9}

TwoRefBytes(a, b, id_size) == EncodeBe(a, id_size) \o EncodeBe(b, id_size)

TwoRefDump(id_size, choices) ==
    [id_size |-> id_size,
     records |->
       <<Utf8Record(1, <<"a">>), Utf8Record(2, <<"b">>),
         Utf8Record(3, <<"p", "/", "C">>), LoadClassRecord(30, 3),
         Segment(<<ClassRecord(30, 0, <<FieldDescriptor(1, "ObjectId"),
                                        FieldDescriptor(2, "ObjectId")>>)>>),
         Segment([i \in DOMAIN choices |->
                    InstanceRecord(i, 30, TwoRefBytes(choices[i].a, choices[i].b,
                                                      id_size))]
                 \o <<PrimitiveArrayRecord(2, "Byte", <<>>),
                      PrimitiveArrayRecord(5, "Int", <<258>>)>>)>>]

TwoRefDumps ==
    {TwoRefDump(4, choices) :
        choices \in UNION {[1..n -> [a : TwoRefVals, b : TwoRefVals]] :
                              n \in 1..MaxInstances}}

\* The naming dumps: classes 10 and 11, neither a subclass of the other,
\* each declaring v: int and r: reference.  Class 10 is named p/A; class 11
\* is named p/B, p/A as well, or p.A.  The name strings and load-class
\* records come ahead of the class records ("early"), after them ("late"),
\* the load-class records ahead and the strings after ("late_strings"), or
\* the load-class records not at all ("absent").  The instances have the ids
\* 1, 2, ..; a reference holds instance 1 or 9, an id nothing declares.
SecondNames == {<<"p", "/", "B">>, <<"p", "/", "A">>, <<"p", ".", "A">>}

NameOrders == {"early", "late", "late_strings", "absent"}

NamingChoices == [class_obj_id : {10, 11}, r : {1, 9}]

NamingDump(second_name, order, choices) ==
    LET field_names == <<Utf8Record(1, <<"v">>), Utf8Record(2, <<"r">>)>>
        class_names == <<Utf8Record(4, <<"p", "/", "A">>), Utf8Record(5, second_name)>>
        loads == <<LoadClassRecord(10, 4), LoadClassRecord(11, 5)>>
        fds == <<FieldDescriptor(1, "Int"), FieldDescriptor(2, "ObjectId")>>
        class_segment == <<Segment(<<ClassRecord(10, 0, fds), ClassRecord(11, 0, fds)>>)>>
        instance_segment ==
            <<Segment([i \in DOMAIN choices |->
                         InstanceRecord(i, choices[i].class_obj_id,
                             EncodeBe(IntOf(i), 4) \o EncodeBe(choices[i].r, 4))])>>
    IN [id_size |-> 4,
        records |->
          field_names
          \o (CASE order = "early" -> class_names \o loads \o class_segment
                [] order = "late" -> class_segment \o class_names \o loads
                [] order = "late_strings" -> loads \o class_segment \o class_names
                [] order = "absent" -> class_names \o class_segment)
          \o instance_segment]

NamingDumps ==
    {NamingDump(second_name, order, choices) :
        second_name \in SecondNames, order \in NameOrders,
        choices \in UNION {[1..n -> NamingChoices] : n \in 1..MaxInstances}}

\* The shadowing dumps: class 40, named p/S, declares one int field; class
\* 41, named p/D, extends it and declares one int field of its own.  The
\* strings 1 and 2 are v and w; no string has the id 7 or 8.  The inherited
\* field is named by string 1 or 7, the subclass's own by 1, 2 or 8.  The
\* instances, all of class 41, have the ids 1, 2, ..; each writes its own
\* field's value ahead of the inherited one's.
SuperNameIds == {1, 7}

SubNameIds == {1, 2, 8}

ShadowChoices == [own : {3, 4}, inherited : {4, 5}]

ShadowDump(super_name_id, sub_name_id, choices) ==
    [id_size |-> 4,
     records |->
       <<Utf8Record(1, <<"v">>), Utf8Record(2, <<"w">>),
         Utf8Record(4, <<"p", "/", "S">>), Utf8Record(5, <<"p", "/", "D">>),
         LoadClassRecord(40, 4), LoadClassRecord(41, 5),
         Segment(<<ClassRecord(40, 0, <<FieldDescriptor(super_name_id, "Int")>>),
                   ClassRecord(41, 40, <<FieldDescriptor(sub_name_id, "Int")>>)>>),
         Segment([i \in DOMAIN choices |->
                    InstanceRecord(i, 41, EncodeBe(choices[i].own, 4)
                                          \o EncodeBe(choices[i].inherited, 4))])>>]

ShadowDumps ==
    {ShadowDump(super_name_id, sub_name_id, choices) :
        super_name_id \in SuperNameIds, sub_name_id \in SubNameIds,
        choices \in UNION {[1..n -> ShadowChoices] : n \in 1..MaxInstances}}

----------------------------------------------------------------------------
(* The interactive dump: dump_objects and print_field_val (main.rs 591-933) *)

\* java_type_name of a field type or of a primitive array's element type
JavaTypeName(t) ==
    CASE t = "ObjectId" -> <<"Object">>
      [] t = "Boolean"  -> <<"boolean">>
      [] t = "Char"     -> <<"char">>
      [] t = "Float"    -> <<"float">>
      [] t = "Double"   -> <<"double">>
      [] t = "Byte"     -> <<"byte">>
      [] t = "Short"    -> <<"short">>
      [] t = "Int"      -> <<"int">>
      [] t = "Long"     -> <<"long">>

\* PrintRefBranches with the primitive-array lookup ahead of the
\* object-to-class lookup
PrintRefBranches_PrimFirst(field_ref_id, obj_map, cls, prim_map) ==
    IF field_ref_id \in DOMAIN prim_map THEN <<"primitive_array">>
    ELSE IF field_ref_id \in DOMAIN obj_map THEN <<"instance">>
    ELSE IF field_ref_id \in DOMAIN cls THEN <<"class">>
    ELSE <<"not_found">>

\* the closure bodies the Option chain of main.rs 825-863 runs for a non-null
\* reference, in order
PrintRefBranches(field_ref_id, obj_map, cls, prim_map) ==
    LET s1 == IF field_ref_id \in DOMAIN obj_map
              THEN [some |-> TRUE, ran |-> <<"instance">>]
              ELSE [some |-> FALSE, ran |-> <<>>]
        s2 == IF s1.some THEN s1
              ELSE IF field_ref_id \in DOMAIN prim_map
                   THEN [some |-> TRUE, ran |-> <<"primitive_array">>]
                   ELSE [some |-> FALSE, ran |-> <<>>]
        s3 == IF s2.some THEN s2
              ELSE IF field_ref_id \in DOMAIN cls
                   THEN [some |-> TRUE, ran |-> <<"class">>]
                   ELSE [some |-> FALSE, ran |-> <<>>]
    IN IF s3.some THEN s3.ran ELSE <<"not_found">>

\* the line one closure body prints
RefLine(branch, field_name, id, obj_map, cls, prim_map) ==
    [field |-> field_name, category |-> branch, id |-> id,
     label |-> CASE branch = "instance" ->
                      IF obj_map[id] \in DOMAIN cls THEN cls[obj_map[id]].name
                      ELSE <<"(class not found)">>
                 [] branch = "primitive_array" -> JavaTypeName(prim_map[id]) \o <<"[]">>
                 [] branch = "class" -> <<"class ">> \o cls[id].name
                 [] OTHER -> <<"(type for obj id not found)">>]

\* the lines print_field_val prints for one value
PrintFieldVal(field_val, field_name, field_type, obj_map, cls, prim_map) ==
    IF field_val.tag = "ObjectId"
    THEN IF field_val.val.some
         THEN LET id == field_val.val.v
                  ran == PrintRefBranches(id, obj_map, cls, prim_map)
              IN [i \in DOMAIN ran |-> RefLine(ran[i], field_name, id, obj_map, cls, prim_map)]
         ELSE <<[field |-> field_name, category |-> "null", id |-> 0, label |-> NullLabel]>>
    ELSE <<[field |-> field_name, category |-> "scalar", id |-> 0,
            label |-> JavaTypeName(field_type), val |-> field_val.val]>>

\* the field lines of one instance (main.rs 695-714): st.ok turns FALSE
\* when a field cannot be parsed, after the lines of the fields before it
RECURSIVE PrintInstanceFields(_, _, _, _, _)
PrintInstanceFields(st, field_descriptors, field_val_input, id_size, ix) ==
    IF field_descriptors = <<>> THEN st
    ELSE LET fd == Head(field_descriptors)
             p == ParseValue(fd.field_type, field_val_input, id_size)
         IN IF ~p.ok THEN [st EXCEPT !.ok = FALSE]
            ELSE PrintInstanceFields(
                   [st EXCEPT !.out = @ \o PrintFieldVal(p.val, FieldName(fd, ix.utf8),
                                             fd.field_type, ix.obj_id_to_class_obj_id,
                                             ix.classes, ix.prim_array_obj_id_to_type)],
                   Tail(field_descriptors), p.rest, id_size, ix)

Header(category, id, label) == [category |-> category, id |-> id, label |-> label]

\* one element of an object array (main.rs 728-743)
ElementLine(id, ix) ==
    IF id = 0 THEN Header("element", 0, NullLabel)
    ELSE Header("element", id,
                IF id \in DOMAIN ix.obj_id_to_class_obj_id
                     /\ ix.obj_id_to_class_obj_id[id] \in DOMAIN ix.classes
                THEN ix.classes[ix.obj_id_to_class_obj_id[id]].name
                ELSE <<"(could not resolve class)">>)

\* one sub-record of a heap dump segment, as dump_objects prints it
PrintSubRecord(st, s, id_size, ix, cifd) ==
    IF ~st.ok THEN st
    ELSE CASE s.tag = "Class" ->
                IF s.obj_id \notin DOMAIN ix.classes THEN [st EXCEPT !.ok = FALSE]
                ELSE LET mc == ix.classes[s.obj_id]
                     IN [st EXCEPT !.out = @ \o <<Header("class", s.obj_id, mc.name)>>
                           \o Concat([i \in DOMAIN mc.static_fields |->
                                PrintFieldVal(mc.static_fields[i].value,
                                    FieldName(mc.static_fields[i], ix.utf8),
                                    mc.static_fields[i].field_type,
                                    ix.obj_id_to_class_obj_id, ix.classes,
                                    ix.prim_array_obj_id_to_type)])]
           [] s.tag = "Instance" ->
                IF s.class_obj_id \notin DOMAIN ix.classes
                     \/ s.class_obj_id \notin DOMAIN cifd
                THEN [st EXCEPT !.ok = FALSE]
                ELSE PrintInstanceFields(
                       [st EXCEPT !.out = @ \o <<Header("instance", s.obj_id,
                                                   ix.classes[s.class_obj_id].name)>>],
                       cifd[s.class_obj_id], s.fields, id_size, ix)
           [] s.tag = "ObjectArray" ->
                IF s.array_class_obj_id \notin DOMAIN ix.classes
                THEN [st EXCEPT !.ok = FALSE]
                ELSE [st EXCEPT !.out = @
                        \o <<Header("object_array", s.obj_id,
                                    ix.classes[s.array_class_obj_id].name)>>
                        \o [i \in DOMAIN s.elements |-> ElementLine(s.elements[i], ix)]]
           [] s.tag = "PrimitiveArray" ->
                [st EXCEPT !.out = @ \o <<[category |-> "primitive_array_header",
                                           id |-> s.obj_id,
                                           label |-> JavaTypeName(s.primitive_type) \o <<"[]">>,
                                           elements |-> s.elements]>>]
           [] OTHER -> st

RECURSIVE PrintSubRecords(_, _, _, _, _)
PrintSubRecords(st, subs, id_size, ix, cifd) ==
    IF subs = <<>> THEN st
    ELSE PrintSubRecords(PrintSubRecord(st, Head(subs), id_size, ix, cifd),
                         Tail(subs), id_size, ix, cifd)

\* one top-level record, as dump_objects prints it
PrintRecord(st, r, id_size, ix, cifd) ==
    IF r.tag = "HeapDumpSegment"
    THEN PrintSubRecords(st, r.sub_records, id_size, ix, cifd)
    ELSE st

----------------------------------------------------------------------------
(* The run: main dispatches on the subcommand (main.rs 40-45) *)

Subcommands == {"dump-objects-to-parquet", "dump-objects"}

InitOn(dumps) ==
    /\ hprof \in dumps
    /\ subcommand \in Subcommands
    /\ pc = "pass1"
    /\ pos = 0
    /\ utf8 = EmptyMap
    /\ utf_8 = EmptyMap
    /\ load_classes = EmptyMap
    /\ classes = EmptyMap
    /\ obj_id_to_class_obj_id = EmptyMap
    /\ prim_array_obj_id_to_type = EmptyMap
    /\ class_instance_field_descriptors = EmptyMap
    /\ schemas = EmptyMap
    /\ class_field_val_map = EmptyMap
    /\ pending = {}
    /\ files = EmptyMap
    /\ written = <<>>
    /\ printed = <<>>
    /\ run = 1

Init == InitOn(Dumps)

InitRoundTrip == InitOn(RoundTripDumps)

InitTwoRefs == InitOn(TwoRefDumps)

InitNaming == InitOn(NamingDumps)

InitShadow == InitOn(ShadowDumps)

\* the first pass reads one top-level record (main.rs 220-259, 607-644)
Pass1Step ==
    /\ pc = "pass1"
    /\ pos < Len(hprof.records)
    /\ LET ix == IndexRecord(CurrentIndex, hprof.records[pos + 1],
                             subcommand = "dump-objects-to-parquet")
       IN /\ utf8' = ix.utf8
          /\ utf_8' = ix.utf_8
          /\ load_classes' = ix.load_classes
          /\ classes' = ix.classes
          /\ obj_id_to_class_obj_id' = ix.obj_id_to_class_obj_id
          /\ prim_array_obj_id_to_type' = ix.prim_array_obj_id_to_type
    /\ pos' = pos + 1
    /\ pc' = IF pos + 1 = Len(hprof.records) THEN "hierarchy" ELSE "pass1"
    /\ UNCHANGED <<hprof, run, subcommand, class_instance_field_descriptors, schemas,
                   class_field_val_map, pending, files, written, printed>>

\* the hierarchy layouts are built between the passes (main.rs 261, 646)
BuildHierarchy ==
    /\ pc = "hierarchy"
    /\ LET built == BuildTypeHierarchyFieldDescriptors(classes)
       IN IF built.ok
          THEN /\ class_instance_field_descriptors' = built.map
               /\ pc' = IF subcommand = "dump-objects" THEN "print" ELSE "pass2"
          ELSE /\ class_instance_field_descriptors' = class_instance_field_descriptors
               /\ pc' = "panic"
    /\ pos' = 0
    /\ UNCHANGED <<hprof, run, subcommand, index, schemas, class_field_val_map, pending,
                   files, written, printed>>

\* the second pass reads one top-level record (main.rs 279-387); after the
\* last one the emission loop starts on the classes of `schemas`
Pass2Step ==
    /\ pc = "pass2"
    /\ pos < Len(hprof.records)
    /\ LET st == Pass2Record([ok |-> TRUE, schemas |-> schemas,
                              class_field_val_map |-> class_field_val_map],
                             hprof.records[pos + 1], hprof.id_size, CurrentIndex,
                             class_instance_field_descriptors)
       IN IF st.ok
          THEN /\ schemas' = st.schemas
               /\ class_field_val_map' = st.class_field_val_map
               /\ pos' = pos + 1
               /\ pc' = IF pos + 1 = Len(hprof.records) THEN "emit" ELSE "pass2"
               /\ pending' = IF pos + 1 = Len(hprof.records)
                             THEN DOMAIN st.schemas ELSE pending
          ELSE /\ pc' = "panic"
               /\ UNCHANGED <<schemas, class_field_val_map, pos, pending>>
    /\ UNCHANGED <<hprof, run, subcommand, index, class_instance_field_descriptors, files,
                   written, printed>>

\* EmitClass that takes the class it has written out of the class table
EmitClass_Draining ==
    /\ pc = "emit"
    /\ \E class_id \in pending :
         LET out == EmitOutcome(class_id, schemas[class_id],
                                class_field_val_map[class_id], CurrentIndex)
         IN CASE out.kind = "panic" ->
                   /\ pc' = "panic"
                   /\ UNCHANGED <<pending, files, written, classes>>
              [] out.kind = "skip" ->
                   /\ pending' = pending \ {class_id}
                   /\ UNCHANGED <<pc, files, written, classes>>
              [] out.kind = "write" ->
                   /\ pending' = pending \ {class_id}
                   /\ files' = WriteToParquet(files, out.file, out.batch)
                   /\ written' = Append(written, [class_id |-> class_id,
                                                  file |-> out.file,
                                                  batch |-> out.batch])
                   /\ classes' = [k \in DOMAIN classes \ {class_id} |-> classes[k]]
                   /\ UNCHANGED pc
    /\ UNCHANGED <<hprof, run, subcommand, pos, utf8, utf_8, load_classes,
                   obj_id_to_class_obj_id, prim_array_obj_id_to_type,
                   class_instance_field_descriptors, schemas, class_field_val_map,
                   printed>>

\* the emission loop visits one class, in the hash map's order (main.rs 389-579)
EmitClass ==
    /\ pc = "emit"
    /\ \E class_id \in pending :
         LET out == EmitOutcome(class_id, schemas[class_id],
                                class_field_val_map[class_id], CurrentIndex)
         IN CASE out.kind = "panic" ->
                   /\ pc' = "panic"
                   /\ UNCHANGED <<pending, files, written>>
              [] out.kind = "skip" ->
                   /\ pending' = pending \ {class_id}
                   /\ UNCHANGED <<pc, files, written>>
              [] out.kind = "write" ->
                   /\ pending' = pending \ {class_id}
                   /\ files' = WriteToParquet(files, out.file, out.batch)
                   /\ written' = Append(written, [class_id |-> class_id,
                                                  file |-> out.file,
                                                  batch |-> out.batch])
                   /\ UNCHANGED pc
    /\ UNCHANGED <<hprof, run, subcommand, pos, index, class_instance_field_descriptors,
                   schemas, class_field_val_map, printed>>

\* dump_objects prints one top-level record (main.rs 648-812)
PrintStep ==
    /\ pc = "print"
    /\ pos < Len(hprof.records)
    /\ LET st == PrintRecord([ok |-> TRUE, out |-> printed], hprof.records[pos + 1],
                             hprof.id_size, CurrentIndex,
                             class_instance_field_descriptors)
       IN /\ printed' = st.out
          /\ IF st.ok
             THEN /\ pos' = pos + 1
                  /\ pc' = IF pos + 1 = Len(hprof.records) THEN "done" ELSE "print"
             ELSE /\ pc' = "panic"
                  /\ pos' = pos
    /\ UNCHANGED <<hprof, run, subcommand, index, class_instance_field_descriptors, schemas,
                   class_field_val_map, pending, files, written>>

\* the emission loop is over and dump_objects_to_parquet returns
Finish ==
    /\ pc = "emit"
    /\ pending = {}
    /\ pc' = "done"
    /\ UNCHANGED <<hprof, run, subcommand, pos, index, class_instance_field_descriptors,
                   schemas, class_field_val_map, pending, files, written, printed>>

Next == Pass1Step \/ BuildHierarchy \/ Pass2Step \/ EmitClass \/ PrintStep \/ Finish

\* runs of the tool over one dump
MaxRuns == 2

\* the tool is run again on the same dump, the output directory left as the
\* run before left it (main.rs 13-45)
Restart ==
    /\ pc = "done"
    /\ run < MaxRuns
    /\ run' = run + 1
    /\ pc' = "pass1"
    /\ pos' = 0
    /\ utf8' = EmptyMap
    /\ utf_8' = EmptyMap
    /\ load_classes' = EmptyMap
    /\ classes' = EmptyMap
    /\ obj_id_to_class_obj_id' = EmptyMap
    /\ prim_array_obj_id_to_type' = EmptyMap
    /\ class_instance_field_descriptors' = EmptyMap
    /\ schemas' = EmptyMap
    /\ class_field_val_map' = EmptyMap
    /\ pending' = {}
    /\ printed' = <<>>
    /\ UNCHANGED <<hprof, subcommand, files, written>>

NextRerun == Next \/ Restart

Spec == Init /\ [][Next]_vars

SpecRoundTrip == InitRoundTrip /\ [][Next]_vars

SpecTwoRefs == InitTwoRefs /\ [][Next]_vars

SpecNaming == InitNaming /\ [][Next]_vars

SpecRerun == InitNaming /\ [][NextRerun]_vars

SpecShadow == InitShadow /\ [][Next]_vars

----------------------------------------------------------------------------
(* What the properties below read off the dump and the output *)

\* the sub-records of the dump, in stream order
SubRecords ==
    Concat([i \in DOMAIN hprof.records |->
              IF hprof.records[i].tag = "HeapDumpSegment"
              THEN hprof.records[i].sub_records ELSE <<>>])

\* the instance records of class c, in stream order
InstancesOf(c) ==
    SelectSeq(SubRecords, LAMBDA s : s.tag = "Instance" /\ s.class_obj_id = c)

\* the batches written for class c
WrittenFor(c) == SelectSeq(written, LAMBDA w : w.class_id = c)

\* the leaf columns of a schema as the columnar file names them: a struct
\* field f gives f.id and f.type
LeafColumns(schema) ==
    Concat([i \in DOMAIN schema |->
              IF schema[i].data_type.kind = "Struct"
              THEN [j \in DOMAIN schema[i].data_type.children |->
                      [name |-> schema[i].name \o <<".">>
                                  \o schema[i].data_type.children[j].name,
                       type |-> schema[i].data_type.children[j].data_type.kind]]
              ELSE <<[name |-> schema[i].name, type |-> schema[i].data_type.kind]>>])

Leaf(name, type) == [name |-> name, type |-> type]

----------------------------------------------------------------------------
(* Properties *)

\* C1: running dump-objects-to-parquet on the round-trip dump (one class
\* with a: int, b: boolean, self: reference; instance 1's self is instance 2,
\* instance 2's is null)
\* the run does not fail and, once over, has written exactly one batch, for
\* that class, with the leaf columns a (Int32), b (Boolean), self.id (UInt64)
\* and self.type (Utf8), each column of 2 rows; row 1's self is instance 2
\* with the class's name, row 2's self is id 0 with the label "null".
C1_RoundTripBatch ==
    /\ pc # "panic"
    /\ subcommand = "dump-objects" => written = <<>>
    /\ pc \in {"pass1", "hierarchy", "pass2"} => written = <<>>
    /\ pc = "done" /\ subcommand = "dump-objects-to-parquet" =>
         /\ Len(written) = 1
         /\ written[1].class_id = 20
         /\ LET b == written[1].batch
            IN /\ LeafColumns(b.schema) =
                    <<Leaf(<<"a">>, "Int32"), Leaf(<<"b">>, "Boolean"),
                      Leaf(<<"self", ".", "id">>, "UInt64"),
                      Leaf(<<"self", ".", "type">>, "Utf8")>>
               /\ Len(b.columns) = 3
               /\ \A i \in DOMAIN b.columns : ArrayLen(b.columns[i]) = 2
               /\ b.columns[1].data_type = Scalar("Int32")
               /\ b.columns[2].data_type = Scalar("Boolean")
               /\ b.columns[3].values[1] = [id |-> 2, type |-> <<"T">>]
               /\ b.columns[3].values[2] = [id |-> 0, type |-> NullLabel]

C1_Witness ==
    /\ pc = "done"
    /\ Len(written) = 1
    /\ ArrayLen(written[1].batch.columns[3]) = 2
    /\ written[1].batch.columns[3].values[2].type = NullLabel

\* the leaf columns the hierarchy field-descriptor list of a class calls for:
\* one per scalar field, an id/type pair per reference field, in list order
HierarchyLeaves(field_descriptors, strs) ==
    Concat([i \in DOMAIN field_descriptors |->
              LET fd == field_descriptors[i]
              IN IF fd.field_type = "ObjectId"
                 THEN <<Leaf(FieldName(fd, strs) \o <<".", "id">>, "UInt64"),
                        Leaf(FieldName(fd, strs) \o <<".", "type">>, "Utf8")>>
                 ELSE <<Leaf(FieldName(fd, strs), ScalarDataType(fd.field_type).kind)>>])

\* C2: the schema of every batch written for a class has exactly one column
\* per scalar field and one id/type column pair per reference field of the
\* class's hierarchy field-descriptor list, in the order of that list.
C2_SchemaFollowsHierarchy ==
    \A i \in DOMAIN written :
        LeafColumns(written[i].batch.schema) =
            HierarchyLeaves(class_instance_field_descriptors[written[i].class_id], utf8)

\* the reference field r of an instance record, read at its offset in the
\* field blob (the layout of p/B is y, x, r; that of p/A is x, r)
RefOf(s) ==
    LET off == IF s.class_obj_id = 11 THEN 5 ELSE 4
    IN BeUnsigned(SubSeq(s.fields, off + 1, off + hprof.id_size))

\* the category of a reference value by first match
Category(id) ==
    IF id = 0 THEN "null"
    ELSE IF id \in DOMAIN obj_id_to_class_obj_id THEN "instance"
    ELSE IF id \in DOMAIN prim_array_obj_id_to_type THEN "primitive_array"
    ELSE IF id \in DOMAIN classes THEN "class"
    ELSE "not_found"

\* what a reference of a category adds to its field's values
CategoryPush(id) ==
    CASE Category(id) \in {"null", "instance"} -> <<ObjectReference(id)>>
      [] Category(id) = "primitive_array"      -> <<PrimitiveArrayReference(id)>>
      [] OTHER                                 -> <<>>

\* the lines dump-objects printed for the fields named r
RefLines ==
    SelectSeq(printed, LAMBDA l : "field" \in DOMAIN l /\ l.field = <<"r">>)

AllInstances == SelectSeq(SubRecords, LAMBDA s : s.tag = "Instance")

\* C3: every decoded reference value falls in exactly one of the five
\* categories null, instance, primitive array, class object, unresolved, the
\* first that matches in that order.  dump-objects prints exactly one line
\* per reference field, of that category and with the value's id, and
\* dump-objects-to-parquet adds to the field's values what that category
\* adds; both read the same category off the same value and index.
C3_FirstMatchCategory ==
    /\ subcommand = "dump-objects" /\ pc = "done" =>
         /\ Len(RefLines) = Len(AllInstances)
         /\ \A i \in DOMAIN RefLines :
                /\ RefLines[i].category = Category(RefOf(AllInstances[i]))
                /\ RefLines[i].id = RefOf(AllInstances[i])
    /\ subcommand = "dump-objects-to-parquet" /\ pc \in {"emit", "done"} =>
         \A c \in DOMAIN class_field_val_map :
             class_field_val_map[c][<<"r">>] =
                 Concat([i \in DOMAIN InstancesOf(c) |->
                           CategoryPush(RefOf(InstancesOf(c)[i]))])

\* an instance whose r is id 2, both an instance and a byte[], was printed
\* as an instance reference, and another whose r is in no table was printed
C3_Witness ==
    /\ subcommand = "dump-objects"
    /\ pc = "done"
    /\ 2 \in DOMAIN obj_id_to_class_obj_id
    /\ 2 \in DOMAIN prim_array_obj_id_to_type
    /\ \E i \in DOMAIN RefLines : RefLines[i].id = 2 /\ RefLines[i].category = "instance"
    /\ \E i \in DOMAIN RefLines : RefLines[i].category = "not_found"

\* the batch written for class c has a column for field r whose row i is
\* the pair (id, label)
RefRowIs(c, i, id, label) ==
    \E w \in Range(WrittenFor(c)) :
        \E k \in DOMAIN w.batch.schema :
            /\ w.batch.schema[k].name = <<"r">>
            /\ i \in DOMAIN w.batch.columns[k].values
            /\ w.batch.columns[k].values[i] = [id |-> id, type |-> label]

\* C4: a non-null reference found in none of the three tables is recorded in
\* its row with its id and the "not found" label, and the instance's class
\* is still written.
C4_UnresolvedRecorded ==
    subcommand = "dump-objects-to-parquet" /\ pc = "done" =>
        \A c \in DOMAIN class_field_val_map :
            \A i \in DOMAIN InstancesOf(c) :
                Category(RefOf(InstancesOf(c)[i])) = "not_found" =>
                    RefRowIs(c, i, RefOf(InstancesOf(c)[i]),
                             <<"(type for obj id not found)">>)

\* C5: in every written batch, the row of an instance whose reference is a
\* primitive array (and no instance or object array) carries the array's id
\* and the label made of the element type's name followed by "[]".
C5_PrimitiveArrayLabel ==
    subcommand = "dump-objects-to-parquet" /\ pc = "done" =>
        \A c \in DOMAIN class_field_val_map :
            \A i \in DOMAIN InstancesOf(c) :
                LET id == RefOf(InstancesOf(c)[i])
                IN Category(id) = "primitive_array" /\ WrittenFor(c) # <<>> =>
                       RefRowIs(c, i, id,
                                JavaTypeName(prim_array_obj_id_to_type[id]) \o <<"[]">>)

\* C6: in every written batch, the row of an instance whose reference is in
\* the object-to-class map (an instance or an object array) carries the
\* referenced id and the name of the class the map gives for it, whatever
\* the primitive-array map and the class table hold for that id.
C6_InstanceLabel ==
    subcommand = "dump-objects-to-parquet" /\ pc = "done" =>
        \A c \in DOMAIN class_field_val_map :
            \A i \in DOMAIN InstancesOf(c) :
                LET id == RefOf(InstancesOf(c)[i])
                IN Category(id) = "instance" /\ WrittenFor(c) # <<>> =>
                       RefRowIs(c, i, id, classes[obj_id_to_class_obj_id[id]].name)

\* the columns of class c can be built: no lookup of the emission loop fails
\* on its values (main.rs 394, 411)
ColumnsCanBeBuilt(c) ==
    BuildColumns(schemas[c], class_field_val_map[c], CurrentIndex).ok

\* the columns of class c can be built and the values accumulated for its
\* schema fields are not all as many
ValueCountsDiffer(c) ==
    LET m == class_field_val_map[c]
        names == {schemas[c][k].name : k \in DOMAIN schemas[c]} \cap DOMAIN m
    IN ColumnsCanBeBuilt(c) /\ \E f, g \in names : Len(m[f]) # Len(m[g])

\* nothing is ever written for a class whose columns differ in length, and
\* the classes beside it are written by the end of the run
C7_NothingWritten ==
    subcommand = "dump-objects-to-parquet" =>
        /\ \A c \in DOMAIN schemas :
               ValueCountsDiffer(c) =>
                   /\ WrittenFor(c) = <<>>
                   /\ FileName(classes[c].name) \notin DOMAIN files
        /\ pc = "done" =>
               \A c \in DOMAIN schemas :
                   ~ValueCountsDiffer(c) /\ schemas[c] # <<>> => Len(WrittenFor(c)) = 1

\* a visit of the emission loop to such a class leaves the run going
C7_VisitDoesNotFail ==
    pc = "emit" /\ pending # {} /\ (\A c \in pending : ValueCountsDiffer(c)) =>
        /\ pc' = "emit"
        /\ written' = written
        /\ files' = files

ColumnLengths(columns) == {ArrayLen(columns[i]) : i \in DOMAIN columns}

\* C8: every batch handed to the writer has columns of one length, as many
\* as its schema has fields; and a class whose built columns are of several
\* lengths is set aside by the check on the columns, ahead of the
\* construction of the batch, which would fail on them.
C8_WrittenBatchesWellFormed ==
    /\ \A i \in DOMAIN written :
           /\ Cardinality(ColumnLengths(written[i].batch.columns)) = 1
           /\ Len(written[i].batch.columns) = Len(written[i].batch.schema)
    /\ pc = "emit" =>
           \A c \in pending :
               LET built == BuildColumns(schemas[c], class_field_val_map[c], CurrentIndex)
               IN built.ok /\ Cardinality(ColumnLengths(built.columns)) > 1 =>
                      /\ ~TryNewOk(schemas[c], built.columns)
                      /\ EmitOutcome(c, schemas[c], class_field_val_map[c],
                                     CurrentIndex).kind = "skip"

\* p/B, of three columns, was written and p/A, whose columns are of several
\* lengths, is yet to be visited
C8_Witness ==
    /\ pc = "emit"
    /\ 10 \in pending
    /\ BuildColumns(schemas[10], class_field_val_map[10], CurrentIndex).ok
    /\ Cardinality(ColumnLengths(BuildColumns(schemas[10], class_field_val_map[10],
                                              CurrentIndex).columns)) > 1
    /\ \E i \in DOMAIN written : Len(written[i].batch.columns) = 3

\* the sum of the widths of a field-descriptor list
RECURSIVE SumWidths(_)
SumWidths(fds) ==
    IF fds = <<>> THEN 0
    ELSE FieldWidth(Head(fds).field_type, hprof.id_size) + SumWidths(Tail(fds))

\* the hierarchy field-descriptor list of the class of instance record s
LayoutOf(s) == class_instance_field_descriptors[s.class_obj_id]

\* field k of instance record s, read at the offset the widths before it give
ValueAt(s, k) ==
    LET off == SumWidths(SubSeq(LayoutOf(s), 1, k - 1))
        w == FieldWidth(LayoutOf(s)[k].field_type, hprof.id_size)
    IN DecodeValue(LayoutOf(s)[k].field_type, SubSeq(s.fields, off + 1, off + w))

\* the reference id of a decoded reference value, 0 for null
IdOf(field_val) == IF field_val.val.some THEN field_val.val.v ELSE 0

\* what field k of instance record s adds to the values of its field
ValuePushAt(s, k) ==
    IF LayoutOf(s)[k].field_type = "ObjectId"
    THEN CategoryPush(IdOf(ValueAt(s, k)))
    ELSE <<FieldValue(ValueAt(s, k))>>

\* what dump-objects prints of field k of instance record s
LineKeyAt(s, k) ==
    IF LayoutOf(s)[k].field_type = "ObjectId"
    THEN <<FieldName(LayoutOf(s)[k], utf8), Category(IdOf(ValueAt(s, k))),
           IdOf(ValueAt(s, k))>>
    ELSE <<FieldName(LayoutOf(s)[k], utf8), "scalar", ValueAt(s, k).val>>

\* what a printed field line shows
LineKey(l) == <<l.field, l.category, IF l.category = "scalar" THEN l.val ELSE l.id>>

\* the field lines dump-objects printed
FieldLines == SelectSeq(printed, LAMBDA l : "field" \in DOMAIN l)

\* both passes over the instances are through without a failure
Decoded ==
    \/ subcommand = "dump-objects-to-parquet" /\ pc \in {"emit", "done"}
    \/ subcommand = "dump-objects" /\ pc = "done"

\* every field of every instance was decoded at the offset given by the sum
\* of the widths before it
DecodedAtOffsets ==
    /\ subcommand = "dump-objects-to-parquet" =>
           \A c \in DOMAIN class_field_val_map :
               \A k \in DOMAIN class_instance_field_descriptors[c] :
                   class_field_val_map[c][FieldName(
                           class_instance_field_descriptors[c][k], utf8)] =
                       Concat([i \in DOMAIN InstancesOf(c) |->
                                 ValuePushAt(InstancesOf(c)[i], k)])
    /\ subcommand = "dump-objects" =>
           [i \in DOMAIN FieldLines |-> LineKey(FieldLines[i])] =
               Concat([i \in DOMAIN AllInstances |->
                         [k \in DOMAIN LayoutOf(AllInstances[i]) |->
                            LineKeyAt(AllInstances[i], k)]])

\* C9 (as claimed): decoding an instance reads its fields one after the
\* other, consuming the sum of the descriptors' widths, and an instance
\* whose field blob is not exactly that many bytes long is not decoded as a
\* well-formed one.
C9_ExactLengthOnly ==
    Decoded =>
        /\ DecodedAtOffsets
        /\ \A i \in DOMAIN AllInstances :
               Len(AllInstances[i].fields) = SumWidths(LayoutOf(AllInstances[i]))

\* C9 (amended): decoding an instance reads its fields one after the other,
\* each at the offset given by the widths before it, consuming the sum of
\* the descriptors' widths; an instance whose blob is shorter than that sum
\* is never decoded as a well-formed one, while one whose blob is longer is,
\* from its first bytes, the bytes after them left unread.
C9_PrefixDecoded ==
    Decoded =>
        /\ DecodedAtOffsets
        /\ \A i \in DOMAIN AllInstances :
               Len(AllInstances[i].fields) >= SumWidths(LayoutOf(AllInstances[i]))

\* an instance of p/B with a byte more than its three fields take was
\* decoded and its class written
C9_Witness ==
    /\ subcommand = "dump-objects-to-parquet"
    /\ pc = "done"
    /\ \E i \in DOMAIN AllInstances :
           /\ AllInstances[i].class_obj_id = 11
           /\ Len(AllInstances[i].fields) > SumWidths(LayoutOf(AllInstances[i]))
           /\ WrittenFor(11) # <<>>

\* instance record s is of a known class and its field blob ends before the
\* last of the class's fields does
Short(s) ==
    /\ s.class_obj_id \in DOMAIN class_instance_field_descriptors
    /\ Len(s.fields) < SumWidths(LayoutOf(s))

DeclaredClasses ==
    {SubRecords[i].obj_id : i \in {j \in DOMAIN SubRecords : SubRecords[j].tag = "Class"}}

\* an instance record or an object array record names a class no class
\* record declares
UnknownClassRecord ==
    \E i \in DOMAIN SubRecords :
        \/ SubRecords[i].tag = "Instance"
             /\ SubRecords[i].class_obj_id \notin DeclaredClasses
        \/ SubRecords[i].tag = "ObjectArray"
             /\ SubRecords[i].array_class_obj_id \notin DeclaredClasses

\* C11: dump-objects-to-parquet on a dump in which an instance or an array
\* record names a class absent from the class table halts in pass 2: it
\* never gets to the emission loop and writes no batch for any class.
C11_UnknownClassHalts ==
    subcommand = "dump-objects-to-parquet" /\ UnknownClassRecord =>
        /\ pc \notin {"emit", "done"}
        /\ written = <<>>

\* C12: a run that halts on a failure has written no output file: no batch
\* is handed to the writer before the emission loop, and the emission loop
\* does not fail once a class has been written.
C12_NoOutputOnFailure ==
    /\ pc \in {"pass1", "hierarchy", "pass2", "print"} => written = <<>> /\ files = EmptyMap
    /\ pc = "panic" => written = <<>> /\ files = EmptyMap

\* the records of the dump with, in every segment, the instance records
\* moved behind the other sub-records
EntitiesFirst ==
    [i \in DOMAIN hprof.records |->
       LET r == hprof.records[i]
       IN IF r.tag = "HeapDumpSegment"
          THEN [r EXCEPT !.sub_records =
                  SelectSeq(r.sub_records, LAMBDA s : s.tag # "Instance")
                  \o SelectSeq(r.sub_records, LAMBDA s : s.tag = "Instance")]
          ELSE r]

\* the category of a reference value by first match in the index ix
CategoryIn(ix, id) ==
    IF id = 0 THEN "null"
    ELSE IF id \in DOMAIN ix.obj_id_to_class_obj_id THEN "instance"
    ELSE IF id \in DOMAIN ix.prim_array_obj_id_to_type THEN "primitive_array"
    ELSE IF id \in DOMAIN ix.classes THEN "class"
    ELSE "not_found"

\* what a reference of a category of the index ix adds to its field's values
CategoryPushIn(ix, id) ==
    CASE CategoryIn(ix, id) \in {"null", "instance"} -> <<ObjectReference(id)>>
      [] CategoryIn(ix, id) = "primitive_array"      -> <<PrimitiveArrayReference(id)>>
      [] OTHER                                       -> <<>>

\* the index pass 1 builds of the whole stream with the entities first
EntitiesFirstIndex ==
    IndexRecords(EmptyIndex, EntitiesFirst, subcommand = "dump-objects-to-parquet")

\* C13: pass 2 processes no record before pass 1 has processed every record:
\* while pass 1 runs nothing is laid out, decoded, accumulated or printed,
\* and from then on the index is that of the whole stream.  A reference to
\* an entity whose record comes later in the stream than the referring
\* instance is therefore classified as it is with that record moved ahead
\* of the instance.
C13_PassOrder ==
    /\ pc = "pass1" =>
           /\ class_instance_field_descriptors = EmptyMap
           /\ schemas = EmptyMap
           /\ class_field_val_map = EmptyMap
           /\ printed = <<>>
    /\ pc \in {"pass2", "print", "emit", "done"} =>
           /\ CurrentIndex = IndexRecords(EmptyIndex, hprof.records,
                                          subcommand = "dump-objects-to-parquet")
           /\ CurrentIndex = EntitiesFirstIndex
    /\ subcommand = "dump-objects-to-parquet" /\ pc \in {"emit", "done"} =>
           \A c \in DOMAIN class_field_val_map :
               class_field_val_map[c][<<"r">>] =
                   Concat([i \in DOMAIN InstancesOf(c) |->
                             CategoryPushIn(EntitiesFirstIndex, RefOf(InstancesOf(c)[i]))])
    /\ subcommand = "dump-objects" /\ pc = "done" =>
           \A i \in DOMAIN RefLines :
               RefLines[i].category = CategoryIn(EntitiesFirstIndex, RefOf(AllInstances[i]))

\* instance 1 refers to instance 2, whose record follows its own, and
\* instance 2 to the object array 6, written after both; both references
\* were recorded as object references
C13_Witness ==
    /\ subcommand = "dump-objects-to-parquet"
    /\ pc = "done"
    /\ Len(InstancesOf(10)) = 2
    /\ class_field_val_map[10][<<"r">>] = <<ObjectReference(2), ObjectReference(6)>>

\* a step taken in pass 2, in the printing pass or in the emission loop
\* leaves the index and the layouts as they are
C14_Frame ==
    pc \in {"pass2", "print", "emit"} =>
        /\ utf8' = utf8
        /\ utf_8' = utf_8
        /\ load_classes' = load_classes
        /\ classes' = classes
        /\ obj_id_to_class_obj_id' = obj_id_to_class_obj_id
        /\ prim_array_obj_id_to_type' = prim_array_obj_id_to_type
        /\ class_instance_field_descriptors' = class_instance_field_descriptors

\* C14: no step of pass 2, of the printing pass or of the emission loop
\* inserts, removes or overwrites an entry of the string table, the class
\* table, the object-to-class map, the primitive-array-to-type map or the
\* hierarchy layouts.
C14_IndexReadOnly == [][C14_Frame]_vars

\* both classes were decoded and written, with the two class entries, the
\* layouts and the object map of pass 1 still in place
C14_Witness ==
    /\ pc = "done"
    /\ Len(written) = 2
    /\ DOMAIN classes = {10, 11}
    /\ DOMAIN class_instance_field_descriptors = {10, 11}
    /\ 7 \in DOMAIN obj_id_to_class_obj_id

\* the four maps of the identity index ix
FourMaps(ix) ==
    <<ix.utf8, ix.classes, ix.obj_id_to_class_obj_id, ix.prim_array_obj_id_to_type>>

FirstInstanceSchema(c) ==
    GenerateSchemaFromType(hprof.id_size, class_instance_field_descriptors[c],
                           InstancesOf(c)[1].fields, utf8, obj_id_to_class_obj_id,
                           classes, prim_array_obj_id_to_type).schema

\* C16: once pass 2 is over the schema map holds, for exactly the classes
\* that have instances, the schema generated from the first instance of the
\* class in the stream, whatever the later instances of the class hold; it
\* holds that schema for as long as the emission loop runs, and every batch
\* handed to the writer carries it.
C16_SchemaFromFirstInstance ==
    subcommand = "dump-objects-to-parquet" /\ pc \in {"emit", "done"} =>
        /\ DOMAIN schemas = {c \in DOMAIN classes : InstancesOf(c) # <<>>}
        /\ \A c \in DOMAIN schemas : schemas[c] = FirstInstanceSchema(c)
        /\ \A i \in DOMAIN written :
               written[i].batch.schema = FirstInstanceSchema(written[i].class_id)

\* a batch was written for a class whose second instance alone would give
\* another schema than its first
C16_Witness ==
    /\ pc = "done"
    /\ \E i \in DOMAIN written :
          LET c == written[i].class_id
          IN /\ Len(InstancesOf(c)) = 2
             /\ written[i].batch.schema = FirstInstanceSchema(c)
             /\ GenerateSchemaFromType(hprof.id_size,
                    class_instance_field_descriptors[c],
                    InstancesOf(c)[2].fields, utf8, obj_id_to_class_obj_id,
                    classes, prim_array_obj_id_to_type).schema
                  # FirstInstanceSchema(c)

\* C17: in the schema held for a class, every reference-typed field of the
\* class's layout has a field of its name whose type is the struct
\* {id: UInt64, type: Utf8}, whichever value the first instance holds there.
C17_ReferenceFieldsAreStructs ==
    \A c \in DOMAIN schemas :
        \A i \in DOMAIN class_instance_field_descriptors[c] :
            LET fd == class_instance_field_descriptors[c][i]
            IN fd.field_type = "ObjectId" =>
                   \E j \in DOMAIN schemas[c] :
                       /\ schemas[c][j].name = FieldName(fd, utf8)
                       /\ schemas[c][j].data_type = RefStruct

\* accumulated value v is the value of field k of instance record s: the
\* decoded scalar, or a reference entry of the decoded id
IsValueOf(v, s, k) ==
    IF LayoutOf(s)[k].field_type = "ObjectId"
    THEN /\ v.tag \in {"ObjectReference", "PrimitiveArrayReference"}
         /\ v.id = IdOf(ValueAt(s, k))
    ELSE v = FieldValue(ValueAt(s, k))

\* C18: once pass 2 is over, the values accumulated for every field of every
\* class are as many as the class has instances, and the k-th of them is the
\* value of that field decoded from the k-th instance of the class in the
\* stream.
C18_EncounterOrder ==
    subcommand = "dump-objects-to-parquet" /\ pc \in {"emit", "done"} =>
        \A c \in DOMAIN class_field_val_map :
            \A f \in DOMAIN class_instance_field_descriptors[c] :
                LET values == class_field_val_map[c][FieldName(
                                  class_instance_field_descriptors[c][f], utf8)]
                IN /\ Len(values) = Len(InstancesOf(c))
                   /\ \A k \in DOMAIN values :
                          IsValueOf(values[k], InstancesOf(c)[k], f)

\* the index of the field named f in the layout of class c
FieldIndex(c, f) ==
    CHOOSE k \in DOMAIN class_instance_field_descriptors[c] :
        FieldName(class_instance_field_descriptors[c][k], utf8) = f

\* what the instances of class c add to the values of field f, each by the
\* category of the id it holds in f alone
OwnPushes(c, f) ==
    Concat([i \in DOMAIN InstancesOf(c) |->
              ValuePushAt(InstancesOf(c)[i], FieldIndex(c, f))])

\* the row of a reference column whose first value is `first`, for value v:
\* the id of v and the name of its class, respectively of its array's
\* element type
OwnRow(first, v) ==
    IF v.tag # first.tag THEN [id |-> 0, type |-> NullLabel]
    ELSE IF v.tag = "ObjectReference"
    THEN [id |-> v.id,
          type |-> IF v.id = 0 THEN NullLabel
                   ELSE classes[obj_id_to_class_obj_id[v.id]].name]
    ELSE [id |-> v.id, type |-> PrimTypeLabel(prim_array_obj_id_to_type, v.id)]

RECURSIVE SuperChain(_, _)
SuperChain(c, n) ==
    IF n = 0 \/ c = 0 \/ c \notin DOMAIN classes THEN <<>>
    ELSE <<c>> \o SuperChain(classes[c].super_class_obj_id, n - 1)

\* the fields the classes of a chain declare, one class after the other
DeclaredAlong(chain) ==
    Concat([i \in DOMAIN chain |-> classes[chain[i]].instance_field_descriptors])

\* field k of instance record s holds what the dump wrote for the field of
\* that name: the int of the instance in x, its boolean in y, its reference
\* in r
HoldsWhatWasWritten(s, k) ==
    LET name == FieldName(LayoutOf(s)[k], utf8)
        v == ValueAt(s, k)
    IN CASE name = <<"x">> -> v.tag = "Int" /\ v.val = IntOf(s.obj_id)
         [] name = <<"y">> -> v.tag = "Boolean" /\ v.val = BoolOf(s.obj_id)
         [] name = <<"r">> -> v.tag = "ObjectId" /\ IdOf(v) = RefOf(s)
         [] OTHER -> FALSE

SurvivesLengthCheck(c) ==
    LET built == BuildColumns(schemas[c], class_field_val_map[c], CurrentIndex)
    IN /\ built.ok
       /\ built.columns # <<>>
       /\ Cardinality(ColumnLengths(built.columns)) = 1

\* the name of the file of a class named `name`: the directory, the name
\* with a period for every "/", the extension
OutputFileOf(name) ==
    <<"parquet", "/">>
        \o [k \in DOMAIN name |-> IF name[k] = "/" THEN "." ELSE name[k]]
        \o <<".parquet">>

\* C21: every batch handed to the writer goes to one file, the one named
\* after its class's resolved name with a period for every "/", and that
\* file exists from then on; no class is written twice; and when the run is
\* over every class that passed the length check has been written exactly
\* once, every other class not at all.
C21_OneFilePerBatch ==
    subcommand = "dump-objects-to-parquet" =>
        /\ \A i \in DOMAIN written :
               /\ written[i].file = OutputFileOf(classes[written[i].class_id].name)
               /\ written[i].file \in DOMAIN files
        /\ DOMAIN files = {written[i].file : i \in DOMAIN written}
        /\ \A i, j \in DOMAIN written :
               i # j => written[i].class_id # written[j].class_id
        /\ pc = "done" =>
               \A c \in DOMAIN schemas :
                   Len(WrittenFor(c)) = IF SurvivesLengthCheck(c) THEN 1 ELSE 0

\* the run is over: p/A went to parquet/p.A.parquet, p/B to
\* parquet/p.B.parquet
C21_Witness ==
    /\ pc = "done"
    /\ {written[i].file : i \in DOMAIN written} =
           {<<"parquet", "/", "p", ".", "A", ".parquet">>,
            <<"parquet", "/", "p", ".", "B", ".parquet">>}
    /\ Len(written) = 2

\* the batches handed to the writer for file f, over all runs, in order
BatchesWrittenTo(f) ==
    LET entries == SelectSeq(written, LAMBDA w : w.file = f)
    IN [i \in DOMAIN entries |-> entries[i].batch]

\* C22: when the second run over the same dump is over, with the output of
\* the first left in place, the file of every class holds the batches of
\* both runs: the batch the first run wrote, still there, and after it the
\* batch of the second.
C22_RerunAppends ==
    subcommand = "dump-objects-to-parquet" /\ run = 2 /\ pc = "done" =>
        \A f \in DOMAIN files : files[f] = BatchesWrittenTo(f)

\* value v of a column, scalar or {id, type} pair, is what field f of
\* instance record s decodes to
RowFrom(v, s, f) ==
    IF LayoutOf(s)[f].field_type = "ObjectId"
    THEN v.id = IdOf(ValueAt(s, f))
    ELSE v = ValueAt(s, f).val

\* C23: every batch written for a class has as many rows as the dump has
\* instances of the class, and row k holds, in every column, the value
\* decoded from the k-th of them.
C23_RowsAreInstances ==
    \A i \in DOMAIN written :
        LET c == written[i].class_id
            batch == written[i].batch
        IN \A j \in DOMAIN batch.schema :
               LET f == FieldIndex(c, batch.schema[j].name)
                   values == batch.columns[j].values
               IN /\ Len(values) = Len(InstancesOf(c))
                  /\ \A k \in DOMAIN values : RowFrom(values[k], InstancesOf(c)[k], f)

\* C24: in every written batch the row of a reference value is the pair
\* that value gives by itself with the index: its id with the name of its
\* class for an instance, with the name of the element type for a primitive
\* array, (0, null) for null; whichever kind the first value of the field is
\* and whatever the other instances hold in it.
C24_RowByOwnValue ==
    \A i \in DOMAIN written :
        LET c == written[i].class_id
            batch == written[i].batch
        IN \A j \in DOMAIN batch.schema :
               LET values == class_field_val_map[c][batch.schema[j].name]
               IN batch.columns[j].values =
                      [k \in DOMAIN values |-> OwnRow(values[k], values[k])]

\* a step of the emission loop does not fail the run
C25_VisitKeepsRunning == pc = "emit" => pc' # "panic"

\* C25: once both passes are through, no visit of the emission loop to a
\* class fails the run: a class whose columns cannot be built or do not fit
\* its schema is dropped, and the loop goes on.
C25_EmissionNeverAborts == [][C25_VisitKeepsRunning]_vars

\* the instance fields of class c's hierarchy layout
FieldsOf(c) == DOMAIN class_instance_field_descriptors[c]

\* C26: when the second pass is through, a class holds one value sequence
\* for each field of its hierarchy layout, whatever the fields' names, and
\* each sequence holds one value for each instance of the class: the value
\* that instance wrote for that field.
C26_OneSequencePerField ==
    subcommand = "dump-objects-to-parquet" /\ pc \in {"emit", "done"} =>
        \A c \in DOMAIN class_field_val_map :
            /\ Cardinality(DOMAIN class_field_val_map[c]) = Cardinality(FieldsOf(c))
            /\ \A name \in DOMAIN class_field_val_map[c] :
                   Len(class_field_val_map[c][name]) = Len(InstancesOf(c))

\* C27: the batches of two classes are written to two files, and every batch
\* written is still what its file holds afterwards: no class's output
\* replaces another's, whatever the classes' names.
C27_DistinctFiles ==
    subcommand = "dump-objects-to-parquet" =>
        \A i, j \in DOMAIN written :
            /\ files[written[i].file] = <<written[i].batch>>
            /\ written[i].class_id # written[j].class_id
                   => written[i].file # written[j].file

\* the name the whole dump gives class c: the string its load-class record
\* names, wherever the two records stand; the sentinel when either is not in
\* the dump
NameInDump(c) ==
    LET loads == SelectSeq(hprof.records,
                           LAMBDA r : r.tag = "LoadClass" /\ r.class_obj_id = c)
    IN IF loads = <<>> THEN MISSING_UTF8
       ELSE LET strs == SelectSeq(hprof.records,
                            LAMBDA r : /\ r.tag = "Utf8"
                                       /\ r.name_id = loads[Len(loads)].class_name_id
                                       /\ r.text.some)
            IN IF strs = <<>> THEN MISSING_UTF8 ELSE strs[Len(strs)].text.v

\* C28: once the first pass is through, the class table holds for every
\* class the name the whole dump gives it, whether the load-class record and
\* the name string stand before or after the class sub-record.
C28_NameIgnoresRecordOrder ==
    pc # "pass1" => \A c \in DOMAIN classes : classes[c].name = NameInDump(c)

====
